---- MODULE Spec2Model ----
(***************************************************************************)
(* Model of streamlit_app.py: the Streamlit page of the compliance         *)
(* checker.  Every browser session runs main() top to bottom on each       *)
(* rerun; the engine object is shared by all sessions through              *)
(* st.cache_resource.  Strings are sequences of one-character strings.     *)
(***************************************************************************)
EXTENDS Integers, Sequences, FiniteSets, TLC

\* ---------------------------------------------------------------- bounds
MaxLen == 2
NumSessions == 2

Sessions == 1..NumSessions
FirstSession == CHOOSE s \in Sessions : \A t \in Sessions : s <= t

\* ------------------------------------------------------ strings, values
Chars == {" ", "a"}
Strs(n) == UNION {[1..k -> Chars] : k \in 0..n}
EmptyStr == <<>>

IsSpace(c) == c = " "

RECURSIVE LStrip(_)
LStrip(str) == IF str # <<>> /\ IsSpace(Head(str)) THEN LStrip(Tail(str)) ELSE str

RECURSIVE RStrip(_)
RStrip(str) ==
    IF str # <<>> /\ IsSpace(str[Len(str)])
    THEN RStrip(SubSeq(str, 1, Len(str) - 1))
    ELSE str

\* str.strip()
strip(str) == RStrip(LStrip(str))

\* Python values the engine may put in a result: a str, None, True, False,
\* or no entry for the key at all.
PyStr(str) == [kind |-> "str", val |-> str]
PyNone == [kind |-> "none", val |-> <<>>]
PyTrue == [kind |-> "true", val |-> <<>>]
PyFalse == [kind |-> "false", val |-> <<>>]
Missing == [kind |-> "missing", val |-> <<>>]

\* Python truthiness, as bool(x) and the `or` operator use it.
Truthy(x) ==
    CASE x.kind = "str" -> x.val # <<>>
      [] x.kind = "true" -> TRUE
      [] OTHER -> FALSE

\* x or y
PyOr(x, y) == IF Truthy(x) THEN x ELSE y

\* dict.get(key) and dict.get(key, default)
DictGet(d, key, default) == IF d[key].kind = "missing" THEN default ELSE d[key]

\* str(x)
PyStrOf(x) ==
    CASE x.kind = "str" -> x.val
      [] x.kind = "true" -> <<"T", "r", "u", "e">>
      [] x.kind = "false" -> <<"F", "a", "l", "s", "e">>
      [] OTHER -> <<"N", "o", "n", "e">>

\* ------------------------------------------------------ widget alphabet
AllLabel == "ALL"    \* the selectbox's first option, the "detect everything" label
ProductTypeLabels == <<AllLabel, "1.0", "2.0", "3.0">>
InputMethods == <<"direct", "upload">>
NONE == "None"
NoneLabel == "none"  \* the literal default shown for an empty triggered_event

Range(f) == {f[i] : i \in DOMAIN f}

\* An uploaded file: none chosen, one whose read() returns content (already
\* decoded with errors="ignore"), or one whose read() raises.
NoFile == [kind |-> "none", val |-> <<>>]
GoodFile(str) == [kind |-> "ok", val |-> str]
BadFile == [kind |-> "bad", val |-> <<>>]

\* The inputs a run is explored with: the full alphabet, or, for the runs of
\* several concurrent sessions, typed text with the button pressed.
Labels(rich) == IF rich THEN Range(ProductTypeLabels) ELSE {AllLabel}
Methods(rich) == IF rich THEN Range(InputMethods) ELSE {"direct"}
Buttons(rich) == IF rich THEN BOOLEAN ELSE {TRUE}
Texts(rich) == IF rich THEN Strs(MaxLen) ELSE {<<>>, <<"a">>}
Files(rich) == {NoFile, BadFile} \cup {GoodFile(t) : t \in Texts(rich)}
ReasonValues(rich) ==
    IF rich THEN {Missing, PyNone} \cup {PyStr(t) : t \in Strs(MaxLen)}
    ELSE {PyStr(<<"a">>)}
ViolationValues(rich) == IF rich THEN {PyTrue, PyFalse, PyNone, Missing} ELSE {PyTrue}
LabelValues(rich) == IF rich THEN {Missing, PyStr(<<>>), PyStr(<<"a">>)} ELSE {PyStr(<<"a">>)}
Results(rich) ==
    [violation : ViolationValues(rich), triggered_event : LabelValues(rich),
     reason : ReasonValues(rich), raw_response : LabelValues(rich)]
NoResult ==
    [violation |-> Missing, triggered_event |-> Missing,
     reason |-> Missing, raw_response |-> Missing]
DebugPayloads == {<<"d">>}

\* ---------------------------------------------------------------- state
NoEngine == 0      \* no instance: the cache entry is empty, the local is unset
NoSession == 0     \* nobody holds the compute lock

VARIABLES
    pc,                  \* where each session's run of main() stands
    product_type_label,  \* line 38
    show_debug,          \* line 44
    input_method,        \* line 54
    typed,               \* what st.text_area returns (line 57)
    uploaded,            \* what st.file_uploader returns (line 63)
    input_text,          \* line 55
    run_btn,             \* line 71
    text,                \* line 76
    engine,              \* line 81
    pt,                  \* line 82
    result,              \* line 85
    display,             \* the elements the run has put on the page
    calls,               \* the engine calls the run has issued, in order
    exc,                 \* the exception that left main(), if any
    cache,               \* st.cache_resource's entry for _get_engine
    lock,                \* the session holding the cache's compute lock
    constructed          \* ComplianceRAGEngine() instances created so far

locals == <<product_type_label, show_debug, input_method, typed, uploaded,
            input_text, run_btn, text, engine, pt, result>>
shared == <<cache, lock, constructed>>
vars == <<pc, locals, display, calls, exc, shared>>

Widget(name, value) == [w |-> name, val |-> value]
Show(s, name, value) == display' = [display EXCEPT ![s] = @ \cup {Widget(name, value)}]
Shown(s, name) == \E e \in display[s] : e.w = name

Init ==
    /\ pc = [s \in Sessions |-> "idle"]
    /\ product_type_label = [s \in Sessions |-> AllLabel]
    /\ show_debug = [s \in Sessions |-> FALSE]
    /\ input_method = [s \in Sessions |-> "direct"]
    /\ typed = [s \in Sessions |-> <<>>]
    /\ uploaded = [s \in Sessions |-> NoFile]
    /\ input_text = [s \in Sessions |-> <<>>]
    /\ run_btn = [s \in Sessions |-> FALSE]
    /\ text = [s \in Sessions |-> <<>>]
    /\ engine = [s \in Sessions |-> NoEngine]
    /\ pt = [s \in Sessions |-> NONE]
    /\ result = [s \in Sessions |-> NoResult]
    /\ display = [s \in Sessions |-> {}]
    /\ calls = [s \in Sessions |-> <<>>]
    /\ exc = [s \in Sessions |-> "none"]
    /\ cache = NoEngine
    /\ lock = NoSession
    /\ constructed = 0

\* ------------------------------------------------------------- main()
\* A rerun begins: Streamlit drops the page of the previous run and calls
\* main() afresh, so no local and no element of the previous run survives.
Rerun(s) ==
    /\ pc[s] = "done"
    /\ product_type_label' = [product_type_label EXCEPT ![s] = AllLabel]
    /\ show_debug' = [show_debug EXCEPT ![s] = FALSE]
    /\ input_method' = [input_method EXCEPT ![s] = "direct"]
    /\ typed' = [typed EXCEPT ![s] = <<>>]
    /\ uploaded' = [uploaded EXCEPT ![s] = NoFile]
    /\ input_text' = [input_text EXCEPT ![s] = <<>>]
    /\ run_btn' = [run_btn EXCEPT ![s] = FALSE]
    /\ text' = [text EXCEPT ![s] = <<>>]
    /\ engine' = [engine EXCEPT ![s] = NoEngine]
    /\ pt' = [pt EXCEPT ![s] = NONE]
    /\ result' = [result EXCEPT ![s] = NoResult]
    /\ display' = [display EXCEPT ![s] = {}]
    /\ calls' = [calls EXCEPT ![s] = <<>>]
    /\ exc' = [exc EXCEPT ![s] = "none"]
    /\ pc' = [pc EXCEPT ![s] = "idle"]
    /\ UNCHANGED shared

\* Lines 36-54 and 71: the widgets return what the user has set.
StartRun(s, rich) ==
    /\ pc[s] = "idle"
    /\ \E label \in Labels(rich), dbg \in BOOLEAN, btn \in Buttons(rich),
          method \in Methods(rich) :
          /\ product_type_label' = [product_type_label EXCEPT ![s] = label]
          /\ show_debug' = [show_debug EXCEPT ![s] = dbg]
          /\ run_btn' = [run_btn EXCEPT ![s] = btn]
          /\ input_method' = [input_method EXCEPT ![s] = method]
          /\ IF method = "direct"
             THEN /\ \E t \in Texts(rich) : typed' = [typed EXCEPT ![s] = t]
                  /\ uploaded' = [uploaded EXCEPT ![s] = NoFile]
             ELSE /\ \E f \in Files(rich) : uploaded' = [uploaded EXCEPT ![s] = f]
                  /\ typed' = [typed EXCEPT ![s] = <<>>]
    /\ pc' = [pc EXCEPT ![s] = "input"]
    /\ UNCHANGED <<input_text, text, engine, pt, result, display, calls, exc, shared>>

\* Variant of InitialInputText: the text area's placeholder taken as the initial text.
PlaceholderInputText == <<"a">>

\* Line 55: input_text before any source has filled it.
InitialInputText == EmptyStr

\* Lines 56-61: the text area supplies the input.
ReadDirect(s) ==
    /\ pc[s] = "input"
    /\ input_method[s] = "direct"
    /\ input_text' = [input_text EXCEPT ![s] = typed[s]]
    /\ pc' = [pc EXCEPT ![s] = "button"]
    /\ UNCHANGED <<product_type_label, show_debug, input_method, typed, uploaded,
                   run_btn, text, engine, pt, result, display, calls, exc, shared>>

\* Lines 63-64: upload mode and no file chosen; input_text keeps line 55's value.
UploadNone(s) ==
    /\ pc[s] = "input"
    /\ input_method[s] = "upload"
    /\ uploaded[s].kind = "none"
    /\ input_text' = [input_text EXCEPT ![s] = InitialInputText]
    /\ pc' = [pc EXCEPT ![s] = "button"]
    /\ UNCHANGED <<product_type_label, show_debug, input_method, typed, uploaded,
                   run_btn, text, engine, pt, result, display, calls, exc, shared>>

\* Lines 66-67: the file is read and decoded, the success line is shown.
UploadRead(s) ==
    /\ pc[s] = "input"
    /\ input_method[s] = "upload"
    /\ uploaded[s].kind = "ok"
    /\ input_text' = [input_text EXCEPT ![s] = uploaded[s].val]
    /\ Show(s, "success_file_read", uploaded[s].val)
    /\ pc' = [pc EXCEPT ![s] = "button"]
    /\ UNCHANGED <<product_type_label, show_debug, input_method, typed, uploaded,
                   run_btn, text, engine, pt, result, calls, exc, shared>>

\* Lines 68-69: read() raised before the assignment; the except branch reports it.
UploadFails(s) ==
    /\ pc[s] = "input"
    /\ input_method[s] = "upload"
    /\ uploaded[s].kind = "bad"
    /\ input_text' = [input_text EXCEPT ![s] = InitialInputText]
    /\ Show(s, "error_file_read", <<>>)
    /\ pc' = [pc EXCEPT ![s] = "button"]
    /\ UNCHANGED <<product_type_label, show_debug, input_method, typed, uploaded,
                   run_btn, text, engine, pt, result, calls, exc, shared>>

\* Variant of TrimmedText: the .strip() of line 76 left out.
UntrimmedText(str) == PyOr(PyStr(str), PyStr(EmptyStr)).val

\* Line 76: (input_text or "").strip()
TrimmedText(str) == strip(PyOr(PyStr(str), PyStr(EmptyStr)).val)

\* Line 77: `not text`
TextIsEmpty(str) == ~Truthy(PyStr(str))

\* Line 75 with the button not pressed: nothing is put in the result column.
NoTrigger(s) ==
    /\ pc[s] = "button"
    /\ ~run_btn[s]
    /\ pc' = [pc EXCEPT ![s] = "done"]
    /\ UNCHANGED <<locals, display, calls, exc, shared>>

\* Lines 75-79: the button is pressed and the trimmed text is empty.
TriggerEmpty(s) ==
    /\ pc[s] = "button"
    /\ run_btn[s]
    /\ TextIsEmpty(TrimmedText(input_text[s]))
    /\ text' = [text EXCEPT ![s] = TrimmedText(input_text[s])]
    /\ Show(s, "warning_empty_input", <<>>)
    /\ pc' = [pc EXCEPT ![s] = "done"]
    /\ UNCHANGED <<product_type_label, show_debug, input_method, typed, uploaded,
                   input_text, run_btn, engine, pt, result, calls, exc, shared>>

\* Lines 75-77: the button is pressed and there is text to check.
TriggerText(s) ==
    /\ pc[s] = "button"
    /\ run_btn[s]
    /\ ~TextIsEmpty(TrimmedText(input_text[s]))
    /\ text' = [text EXCEPT ![s] = TrimmedText(input_text[s])]
    /\ pc' = [pc EXCEPT ![s] = "get_engine"]
    /\ UNCHANGED <<product_type_label, show_debug, input_method, typed, uploaded,
                   input_text, run_btn, engine, pt, result, display, calls, exc, shared>>

\* --------------------------------------------------------- _get_engine()
\* Variant of CachedEngine: _get_engine without its decorator keeps nothing.
UncachedEngine == NoEngine

\* Line 15: what st.cache_resource has stored for _get_engine.
CachedEngine == cache

\* Line 81, the cache already filled: the stored instance is handed out.
CacheHit(s) ==
    /\ pc[s] = "get_engine"
    /\ CachedEngine # NoEngine
    /\ engine' = [engine EXCEPT ![s] = CachedEngine]
    /\ pc' = [pc EXCEPT ![s] = "have_engine"]
    /\ UNCHANGED <<product_type_label, show_debug, input_method, typed, uploaded,
                   input_text, run_btn, text, pt, result, display, calls, exc, shared>>

\* Line 81, nothing stored yet: the caller goes for the cache's compute lock.
CacheMiss(s) ==
    /\ pc[s] = "get_engine"
    /\ CachedEngine = NoEngine
    /\ pc' = [pc EXCEPT ![s] = "wait_lock"]
    /\ UNCHANGED <<locals, display, calls, exc, shared>>

\* Under the compute lock the cache is read again: a value stored meanwhile is
\* handed out, otherwise the body of _get_engine (lines 17-21) starts.
EnterLock(s) ==
    /\ pc[s] = "wait_lock"
    /\ lock = NoSession
    /\ IF CachedEngine # NoEngine
       THEN /\ engine' = [engine EXCEPT ![s] = CachedEngine]
            /\ pc' = [pc EXCEPT ![s] = "have_engine"]
            /\ UNCHANGED lock
       ELSE /\ lock' = s
            /\ pc' = [pc EXCEPT ![s] = "constructing"]
            /\ UNCHANGED engine
    /\ UNCHANGED <<product_type_label, show_debug, input_method, typed, uploaded,
                   input_text, run_btn, text, pt, result, display, calls, exc,
                   cache, constructed>>

\* Line 21: ComplianceRAGEngine() returns; the instance is stored and handed out.
ConstructReturns(s) ==
    /\ pc[s] = "constructing"
    /\ constructed' = constructed + 1
    /\ cache' = constructed + 1
    /\ engine' = [engine EXCEPT ![s] = constructed + 1]
    /\ lock' = NoSession
    /\ pc' = [pc EXCEPT ![s] = "have_engine"]
    /\ UNCHANGED <<product_type_label, show_debug, input_method, typed, uploaded,
                   input_text, run_btn, text, pt, result, display, calls, exc>>

\* Lines 19-21: the import or the constructor raises; nothing is stored and the
\* exception leaves _get_engine and, uncaught at line 81, main().
ConstructRaises(s) ==
    /\ pc[s] = "constructing"
    /\ lock' = NoSession
    /\ exc' = [exc EXCEPT ![s] = "construct"]
    /\ pc' = [pc EXCEPT ![s] = "done"]
    /\ UNCHANGED <<locals, display, calls, cache, constructed>>

\* ------------------------------------------------------------ predict
\* Variant of _normalize_product_type: the label handed on as it is.
PassThroughProductType(pt_label) == pt_label

\* Lines 24-27.
_normalize_product_type(pt_label) == IF pt_label = AllLabel THEN NONE ELSE pt_label

Call(op, txt, ptype) == [op |-> op, text |-> txt, product_type |-> ptype]

\* Lines 82-85: engine.predict(text, product_type=pt) is issued.
CallPredict(s) ==
    /\ pc[s] = "have_engine"
    /\ pt' = [pt EXCEPT ![s] = _normalize_product_type(product_type_label[s])]
    /\ calls' = [calls EXCEPT ![s] =
                    Append(@, Call("predict", text[s],
                                   _normalize_product_type(product_type_label[s])))]
    /\ pc' = [pc EXCEPT ![s] = "in_predict"]
    /\ UNCHANGED <<product_type_label, show_debug, input_method, typed, uploaded,
                   input_text, run_btn, text, engine, result, display, exc, shared>>

\* Line 87: bool(result.get("violation"))
violation(res) == Truthy(DictGet(res, "violation", PyNone))

\* Line 88: str(result.get("triggered_event", "none") or "none")
triggered_event(res) ==
    PyStrOf(PyOr(DictGet(res, "triggered_event", PyStr(<<NoneLabel>>)), PyStr(<<NoneLabel>>)))

\* Line 89: str(result.get("reason", "") or "")
reason(res) == PyStrOf(PyOr(DictGet(res, "reason", PyStr(EmptyStr)), PyStr(EmptyStr)))

\* Line 90: str(result.get("raw_response", "") or "")
raw_response(res) ==
    PyStrOf(PyOr(DictGet(res, "raw_response", PyStr(EmptyStr)), PyStr(EmptyStr)))

\* Variant of Banner: the two branches of line 93 swapped.
BannerSwapped(viol) ==
    IF viol THEN {Widget("success_compliant", <<>>)} ELSE {Widget("error_violation", <<>>)}

\* Lines 93-96: the status banner.
Banner(viol) ==
    IF viol THEN {Widget("error_violation", <<>>)} ELSE {Widget("success_compliant", <<>>)}

\* Variant of ReasonPanel: the text box filled with the trimmed reason.
ReasonPanelTrimmed(rsn) ==
    IF strip(rsn) # <<>>
    THEN {Widget("text_area_reason", strip(rsn))}
    ELSE {Widget("warning_no_reason", <<>>)}

\* Lines 103-108: the reason tab.
ReasonPanel(rsn) ==
    IF strip(rsn) # <<>>
    THEN {Widget("text_area_reason", rsn)}
    ELSE {Widget("warning_no_reason", <<>>)}

\* Lines 110-114: the raw-output tab.
RawPanel(raw) ==
    IF strip(raw) # <<>>
    THEN {Widget("code_raw", raw)}
    ELSE {Widget("info_no_raw", <<>>)}

\* Lines 87-114: everything rendered from a result before the debug tab.
RenderResult(res) ==
    Banner(violation(res))
        \cup {Widget("markdown_event", triggered_event(res))}
        \cup ReasonPanel(reason(res))
        \cup RawPanel(raw_response(res))

\* Line 85 returns and lines 87-114 render the result.
PredictReturns(s, rich) ==
    /\ pc[s] = "in_predict"
    /\ \E res \in Results(rich) :
          /\ result' = [result EXCEPT ![s] = res]
          /\ display' = [display EXCEPT ![s] = @ \cup RenderResult(res)]
    /\ pc' = [pc EXCEPT ![s] = "debug_tab"]
    /\ UNCHANGED <<product_type_label, show_debug, input_method, typed, uploaded,
                   input_text, run_btn, text, engine, pt, calls, exc, shared>>

\* Line 85 raises; nothing catches it, so it leaves main().
PredictRaises(s) ==
    /\ pc[s] = "in_predict"
    /\ exc' = [exc EXCEPT ![s] = "predict"]
    /\ pc' = [pc EXCEPT ![s] = "done"]
    /\ UNCHANGED <<locals, display, calls, shared>>

\* ---------------------------------------------------------- debug tab
\* Variant of DebugText: debug_retrieval given the raw input_text.
DebugRawText(s) == input_text[s]

\* Variant of DebugWanted: the debug tab fetching whatever the toggle says.
DebugAlways(s) == TRUE

\* Line 118: the argument of engine.debug_retrieval.
DebugText(s) == text[s]

\* Line 117: the branch the debug tab takes.
DebugWanted(s) == show_debug[s]

\* Lines 120-121: the toggle is off; the hint is shown and the run ends.
DebugOff(s) ==
    /\ pc[s] = "debug_tab"
    /\ ~DebugWanted(s)
    /\ Show(s, "info_debug_off", <<>>)
    /\ pc' = [pc EXCEPT ![s] = "done"]
    /\ UNCHANGED <<locals, calls, exc, shared>>

\* Lines 117-118: the toggle is on; engine.debug_retrieval(text) is issued.
CallDebug(s) ==
    /\ pc[s] = "debug_tab"
    /\ DebugWanted(s)
    /\ calls' = [calls EXCEPT ![s] = Append(@, Call("debug_retrieval", DebugText(s), NONE))]
    /\ pc' = [pc EXCEPT ![s] = "in_debug"]
    /\ UNCHANGED <<locals, display, exc, shared>>

\* Lines 118-119: the payload comes back and is shown as JSON.
DebugReturns(s) ==
    /\ pc[s] = "in_debug"
    /\ \E payload \in DebugPayloads : Show(s, "json_debug", payload)
    /\ pc' = [pc EXCEPT ![s] = "done"]
    /\ UNCHANGED <<locals, calls, exc, shared>>

\* Line 118 raises; nothing catches it, so it leaves main().
DebugRaises(s) ==
    /\ pc[s] = "in_debug"
    /\ exc' = [exc EXCEPT ![s] = "debug"]
    /\ pc' = [pc EXCEPT ![s] = "done"]
    /\ UNCHANGED <<locals, display, calls, shared>>

\* ------------------------------------------------------ specifications
\* Lines 81-121: one step of a detection that has passed the empty-input check.
Detect(s, rich) ==
    \/ CacheHit(s)
    \/ CacheMiss(s)
    \/ EnterLock(s)
    \/ ConstructReturns(s)
    \/ ConstructRaises(s)
    \/ CallPredict(s)
    \/ PredictReturns(s, rich)
    \/ PredictRaises(s)
    \/ DebugOff(s)
    \/ CallDebug(s)
    \/ DebugReturns(s)
    \/ DebugRaises(s)

\* One session, rerun after rerun, over the full input alphabet.
Next ==
    \/ Rerun(FirstSession)
    \/ StartRun(FirstSession, TRUE)
    \/ ReadDirect(FirstSession)
    \/ UploadNone(FirstSession)
    \/ UploadRead(FirstSession)
    \/ UploadFails(FirstSession)
    \/ NoTrigger(FirstSession)
    \/ TriggerEmpty(FirstSession)
    \/ TriggerText(FirstSession)
    \/ Detect(FirstSession, TRUE)
Spec == Init /\ [][Next]_vars

\* Several sessions of one process pressing the button on typed text, their
\* runs of main() interleaved.
NextConcurrent ==
    \E s \in Sessions :
        \/ Rerun(s)
        \/ StartRun(s, FALSE)
        \/ ReadDirect(s)
        \/ TriggerEmpty(s)
        \/ TriggerText(s)
        \/ Detect(s, FALSE)
SpecConcurrent == Init /\ [][NextConcurrent]_vars

\* ------------------------------------------------------------ properties
ResultWidgets ==
    {"error_violation", "success_compliant", "markdown_event", "text_area_reason",
     "warning_no_reason", "code_raw", "info_no_raw"}
DebugWidgets == {"json_debug", "info_debug_off"}

\* Some part of a ScreeningResult is on the session's page.
ResultShown(s) == \E e \in display[s] : e.w \in ResultWidgets

\* The engine operations the session's run has issued.
CalledOps(s) == {calls[s][i].op : i \in DOMAIN calls[s]}

\* The run has gone through the trigger check of lines 75-79.
PastTrigger(s) == pc[s] \notin {"idle", "input", "button"}

\* predict has returned a result to the run.
PredictReturned(s) ==
    \/ pc[s] \in {"debug_tab", "in_debug"}
    \/ pc[s] = "done" /\ calls[s] # <<>> /\ exc[s] # "predict"

\* C1: a trigger whose input text is empty after trimming never reaches the
\* engine (no instance fetched, no predict, no debug_retrieval), ends at once
\* with the empty-input warning shown and renders no result and no debug tab.
C1_EmptyInputNeverReachesEngine ==
    \A s \in Sessions :
        (run_btn[s] /\ PastTrigger(s) /\ strip(input_text[s]) = <<>>) =>
            /\ pc[s] = "done"
            /\ calls[s] = <<>>
            /\ engine[s] = NoEngine
            /\ exc[s] = "none"
            /\ Shown(s, "warning_empty_input")
            /\ \A e \in display[s] : e.w \notin ResultWidgets \cup DebugWidgets

\* C1 witness: a trigger on whitespace-only text, debug toggle on, has ended
\* with the warning.
C1_Witness ==
    \E s \in Sessions :
        /\ pc[s] = "done" /\ run_btn[s] /\ show_debug[s]
        /\ input_text[s] = <<" ", " ">>
        /\ Shown(s, "warning_empty_input")

\* C2: every predict call carries None as product_type exactly when the
\* selected label is the "detect everything" label, carries the label itself
\* otherwise, and never carries the "detect everything" label.
C2_SentinelBecomesNone ==
    \A s \in Sessions : \A i \in DOMAIN calls[s] :
        calls[s][i].op = "predict" =>
            /\ (calls[s][i].product_type = NONE) <=> (product_type_label[s] = AllLabel)
            /\ product_type_label[s] # AllLabel =>
                   calls[s][i].product_type = product_type_label[s]
            /\ calls[s][i].product_type # AllLabel

\* C2 witness: predict has been called with the "detect everything" label selected.
C2_Witness ==
    \E s \in Sessions :
        /\ product_type_label[s] = AllLabel
        /\ "predict" \in CalledOps(s)
        /\ pt[s] = NONE

\* C3 (as claimed): a run that ends in an engine failure shows no part of a
\* ScreeningResult.
C3_ErrorExcludesResult ==
    \A s \in Sessions : exc[s] # "none" => ~ResultShown(s)

\* C4 (as claimed): no failure of the file read, the engine construction,
\* predict or debug_retrieval leaves main() as an unhandled exception.
C4_NoFailureLeavesMain ==
    \A s \in Sessions : exc[s] = "none"

\* C5: a debug_retrieval call is only ever the second call of a run, issued
\* after predict has returned, and it carries the same trimmed text as the
\* run's predict call.
C5_DebugAfterPredictSameText ==
    \A s \in Sessions : \A i \in DOMAIN calls[s] :
        calls[s][i].op = "debug_retrieval" =>
            /\ i = 2
            /\ calls[s][1].op = "predict"
            /\ PredictReturned(s)
            /\ pc[s] \in {"in_debug", "done"}
            /\ calls[s][i].text = calls[s][1].text
            /\ calls[s][i].text = strip(input_text[s])

\* C5 witness: both calls were made in a run whose input needed trimming.
C5_Witness ==
    \E s \in Sessions :
        /\ CalledOps(s) = {"predict", "debug_retrieval"}
        /\ input_text[s] # strip(input_text[s])

C7_EngineConstructedOnce ==
    /\ constructed <= 1
    /\ cache = constructed
    /\ \A s \in Sessions :
          /\ engine[s] # NoEngine => engine[s] = cache
          /\ (pc[s] \in {"wait_lock", "constructing"} \/ engine[s] # NoEngine) =>
                 run_btn[s] /\ text[s] # <<>>

\* C7 witness: concurrent first use; one session has built the engine while
\* another, which also missed the cache, still waits for the compute lock.
C7_Witness ==
    \E s, t \in Sessions :
        /\ s # t
        /\ engine[s] # NoEngine
        /\ pc[t] = "wait_lock"
        /\ constructed = 1

\* C8: once predict has returned, exactly one of the two banners is shown:
\* the violation banner for violation = True, the compliant one for False.
C8_ExactlyOneBanner ==
    \A s \in Sessions :
        PredictReturned(s) =>
            /\ Shown(s, "error_violation") <=> ~Shown(s, "success_compliant")
            /\ result[s].violation = PyTrue => Shown(s, "error_violation")
            /\ result[s].violation = PyFalse => Shown(s, "success_compliant")

\* C8 witness: a result with violation = True has been rendered.
C8_Witness ==
    \E s \in Sessions :
        /\ PredictReturned(s)
        /\ result[s].violation = PyTrue
        /\ Shown(s, "error_violation")

\* The reason field holds nothing to show: missing, None, empty or blank.
BlankReason(r) == r.kind \in {"missing", "none"} \/ (r.kind = "str" /\ strip(r.val) = <<>>)

\* C9: once predict has returned, a missing, empty or blank reason gives the
\* "no reason" notice and no text box; any other reason gives exactly one text
\* box, holding the reason as returned, and no notice.
C9_ReasonVerbatimOrNotice ==
    \A s \in Sessions :
        PredictReturned(s) =>
            IF BlankReason(result[s].reason)
            THEN /\ Shown(s, "warning_no_reason")
                 /\ ~Shown(s, "text_area_reason")
            ELSE /\ {e \in display[s] : e.w = "text_area_reason"} =
                        {Widget("text_area_reason", result[s].reason.val)}
                 /\ ~Shown(s, "warning_no_reason")

\* C9 witness: a reason with surrounding blanks is shown untouched.
C9_Witness ==
    \E s \in Sessions :
        /\ PredictReturned(s)
        /\ result[s].reason = PyStr(<<" ", "a">>)
        /\ Widget("text_area_reason", <<" ", "a">>) \in display[s]

\* C10: in upload mode with no file, or with a file whose read fails, the
\* input text stays empty and the error line is shown exactly for the failed
\* read; a trigger in that run ends with the empty-input warning and without
\* any engine call.
C10_FailedUploadLeavesInputEmpty ==
    \A s \in Sessions :
        (input_method[s] = "upload" /\ uploaded[s].kind \in {"none", "bad"}
            /\ pc[s] \notin {"idle", "input"}) =>
            /\ input_text[s] = <<>>
            /\ Shown(s, "error_file_read") <=> uploaded[s].kind = "bad"
            /\ ~Shown(s, "success_file_read")
            /\ pc[s] \in {"button", "done"}
            /\ calls[s] = <<>> /\ engine[s] = NoEngine
            /\ (pc[s] = "done" /\ run_btn[s]) => Shown(s, "warning_empty_input")

\* C10 witness: the read failed, the button was pressed, the warning is shown.
C10_Witness ==
    \E s \in Sessions :
        /\ input_method[s] = "upload" /\ uploaded[s].kind = "bad"
        /\ pc[s] = "done" /\ run_btn[s]
        /\ Shown(s, "error_file_read")
        /\ Shown(s, "warning_empty_input")

====
